---- MODULE Spec2Model ----
(***************************************************************************)
(* Model of the real-time layer of MeWork: SocketManager                   *)
(* (backend/src/utils/socketManager.ts).  One socket.io server, its        *)
(* authentication middleware, the connection handler with the per-socket   *)
(* event handlers it installs, and the connectedUsers registry.            *)
(*                                                                         *)
(* Strings the code builds with template literals are sequences of chunks: *)
(* `user:${id}` is <<"user:", id>>, `job:${jobId}` is <<"job:">> \o jobId,  *)
(* the role room "admin" is <<"admin">>.  Two room names are equal exactly *)
(* when their chunk sequences are.                                         *)
(***************************************************************************)
EXTENDS Naturals, Integers, Sequences, FiniteSets, TLC

\* ------------------------------------------------------------------ bounds
\* ping / kyc:status:request replies are answered only while the socket's
\* outbound log is shorter than this
MaxSent == 2
\* how many times one session may be recovered by the transport
MaxRecover == 1

\* ------------------------------------------------------------- value sets
Undef == "undefined"
NoErr == "none"

\* socket ids handed out by the transport (each id serves one session)
Sockets == {"s1", "s2"}

\* ids a token's userId claim may carry
UserIds == {"u1", "u2", "u3", "u4"}

Roles == {"student", "employer", "admin"}

\* the User collection: u1 an active student, u2 an active admin, u3 an
\* employer whose isActive flag is false (suspended or soft-deleted), u4 has
\* no document
Users ==
  [u \in {"u1", "u2", "u3"} |->
     CASE u = "u1" -> [_id |-> "u1", email |-> "u1@mail", userType |-> "student",  isActive |-> TRUE]
       [] u = "u2" -> [_id |-> "u2", email |-> "u2@mail", userType |-> "admin",    isActive |-> TRUE]
       [] u = "u3" -> [_id |-> "u3", email |-> "u3@mail", userType |-> "employer", isActive |-> FALSE]]

\* JWTs a client may present: the userId claim each carries and whether
\* jwt.verify accepts its signature and expiry
Jwt ==
  [t \in {"jwt-u1", "jwt-u2", "jwt-u3", "jwt-u4", "jwt-u1-expired", "jwt-u2-forged"} |->
     CASE t = "jwt-u1"         -> [userId |-> "u1", verifies |-> TRUE]
       [] t = "jwt-u2"         -> [userId |-> "u2", verifies |-> TRUE]
       [] t = "jwt-u3"         -> [userId |-> "u3", verifies |-> TRUE]
       [] t = "jwt-u4"         -> [userId |-> "u4", verifies |-> TRUE]
       [] t = "jwt-u1-expired" -> [userId |-> "u1", verifies |-> FALSE]
       [] t = "jwt-u2-forged"  -> [userId |-> "u2", verifies |-> FALSE]]

Tokens == DOMAIN Jwt

\* a token as the string the client sends
TokenString(t) == <<t>>

\* an optional string that is absent (undefined); no string contains this
\* chunk
NoString == <<"\\undefined">>

BearerPrefix == "Bearer "

\* handshake.auth.token: absent, the empty string, or a token
AuthFieldValues == {NoString, <<>>} \cup {TokenString(t) : t \in Tokens}

\* handshake.headers.authorization: absent, "Bearer " alone, "Bearer <tok>",
\* or the bare token without the scheme
HeaderValues ==
  {NoString, <<BearerPrefix>>}
    \cup {<<BearerPrefix, t>> : t \in Tokens}
    \cup {TokenString(t) : t \in Tokens}

Handshakes == [auth : AuthFieldValues, authorization : HeaderValues]

\* outcome of User.findById as seen by the middleware: it resolves (to a
\* document or null) or it rejects
DbOutcomes == {"resolves", "rejects"}

\* the three messages the middleware passes to next(new Error(...))
ErrNoToken      == "Authentication error: No token provided"
ErrInvalidToken == "Authentication error: Invalid token"
ErrUserNotFound == "Authentication error: User not found"

\* reasons socket.io gives the disconnect handler; the first is a reason
\* after which the session is kept for recovery, the second is not
Reasons == {"transport close", "client namespace disconnect"}
RecoverableReasons == {"transport close"}

\* arguments a client may send with join_job_room / leave_job_room
JobIdArgs == {<<"42">>, <<"admin">>, <<"user:", "u1">>}

VARIABLES
  phase,           \* per socket id: idle, authed, open, closed, rejected
  ident,           \* per socket: the userId/userType/userEmail properties
  authError,       \* per socket: message given to next(err), or NoErr
  rooms,           \* per socket: rooms it is a member of (adapter state)
  session,         \* per socket: rooms kept by connectionStateRecovery
  recoveries,      \* per socket: number of recoveries so far
  connectedUsers,  \* the Map userId -> socketId
  sent,            \* per socket: events emitted to it, oldest first
  handshake,       \* input of the middleware run under SpecAuth
  verdict,         \* its result under SpecAuth
  dispatched,      \* number of dispatcher calls made so far
  call,            \* arguments of the dispatcher call built under SpecPayload
  outbox,          \* the payloads it emits under SpecPayload
  mongo,           \* the Job, KYC, User and OTP collections of the REST routes
  requests         \* the HTTP requests received so far, each with its position

\* the state of the socket server
socketVars == <<phase, ident, authError, rooms, session, recoveries,
                connectedUsers, sent, handshake, verdict, dispatched, call, outbox>>

vars == <<phase, ident, authError, rooms, session, recoveries,
          connectedUsers, sent, handshake, verdict, dispatched, call, outbox,
          mongo, requests>>

\* ------------------------------------------------------------ middleware
\* String.prototype.replace(pattern, ''): drop the first occurrence
RECURSIVE replace(_, _)
replace(str, pattern) ==
  IF str = <<>> THEN <<>>
  ELSE IF Head(str) = pattern THEN Tail(str)
  ELSE <<Head(str)>> \o replace(Tail(str), pattern)

\* JavaScript truthiness of an optional string
Truthy(v) == v # NoString /\ v # <<>>

\* handshake.auth?.token || handshake.headers?.authorization?.replace('Bearer ', '')
ExtractTokenHeaderFirst(h) ==
  IF h.authorization # NoString /\ Truthy(replace(h.authorization, BearerPrefix))
    THEN replace(h.authorization, BearerPrefix)
  ELSE h.auth

ExtractToken(h) ==
  IF Truthy(h.auth) THEN h.auth
  ELSE IF h.authorization = NoString THEN NoString
  ELSE replace(h.authorization, BearerPrefix)

\* jwt.verify(token, secret): TRUE when it returns the payload, FALSE when
\* it throws
jwtVerify(token) ==
  /\ Len(token) = 1
  /\ token[1] \in Tokens
  /\ Jwt[token[1]].verifies

NoIdent == [userId |-> Undef, userType |-> Undef, userEmail |-> Undef]

Rejection(msg) == [err |-> msg, ident |-> NoIdent]

\* User.findById(id).select('_id email userType name') resolves to null
found(id) == id \in DOMAIN Users

\* the body of the io.use callback: the error handed to next and the
\* properties attached to the socket
AuthMiddleware(h, db) ==
  LET token == ExtractToken(h) IN
  IF ~Truthy(token) THEN Rejection(ErrNoToken)
  ELSE IF ~jwtVerify(token) THEN Rejection(ErrInvalidToken)
  ELSE IF db = "rejects" THEN Rejection(ErrInvalidToken)
  ELSE IF ~found(Jwt[token[1]].userId) THEN Rejection(ErrUserNotFound)
  ELSE LET user == Users[Jwt[token[1]].userId] IN
            [err   |-> NoErr,
             ident |-> [userId    |-> user._id,
                        userType  |-> user.userType,
                        userEmail |-> user.email]]

\* next(err) / next(): socket.io refuses the socket or goes on to connect it
nextIgnoringError(err) == "authed"

next(err) == IF err = NoErr THEN "authed" ELSE "rejected"

\* --------------------------------------------------------------- registry
MapSet(m, k, v) == [x \in DOMAIN m \cup {k} |-> IF x = k THEN v ELSE m[x]]

MapDelete(m, k) == [x \in DOMAIN m \ {k} |-> m[x]]

EmptyMap == [x \in {} |-> Undef]

isUserConnected(userId) == userId \in DOMAIN connectedUsers

getConnectedUsersCount == Cardinality(DOMAIN connectedUsers)

\* "Store user connection", lines 100-104
StoreNothing(m, id, s) == m

StoreUserConnection(m, id, s) ==
  IF id.userId # Undef THEN MapSet(m, id.userId, s) ELSE m

\* the disconnect handler's registry update, lines 136-139
KeepUserConnection(m, id, s) == m

RemoveBySocketId(m, id, s) ==
  IF id.userId # Undef THEN MapDelete(m, s) ELSE m

RemoveUserConnection(m, id, s) ==
  IF id.userId # Undef THEN MapDelete(m, id.userId) ELSE m

\* ------------------------------------------------------------------ rooms
\* Only the rooms the code names are kept; the private room socket.io gives
\* each socket under its own id is never addressed by SocketManager.
PersonalRoom(userId) == <<"user:", userId>>
RoleRoom(userType) == <<userType>>
AdminRoom == <<"admin">>

\* `${v}` for an optional string: an absent one is written "undefined"
TemplateString(v) == IF v = NoString THEN <<"undefined">> ELSE v

JobRoomUnprefixed(jobId) == jobId

JobRoom(jobId) == <<"job:">> \o TemplateString(jobId)

\* rooms the connection handler joins, lines 106-122
DefaultRoomsAlwaysAdmin(id) ==
  (IF id.userId # Undef THEN {PersonalRoom(id.userId)} ELSE {})
    \cup (IF id.userType # Undef THEN {RoleRoom(id.userType)} ELSE {})
    \cup {AdminRoom}

DefaultRooms(id) ==
  (IF id.userId # Undef THEN {PersonalRoom(id.userId)} ELSE {})
    \cup (IF id.userType # Undef THEN {RoleRoom(id.userType)} ELSE {})
    \cup (IF id.userType = "admin" THEN {AdminRoom} ELSE {})

\* what the socket keeps of its rooms when it disconnects: socket.io leaves
\* every room before the disconnect handler returns
KeepRooms(r) == r

LeaveAll(r) == {}

\* a session kept for recovery holds the rooms of the socket and the events
\* broadcast to those rooms while the socket is away
NoSession == [saved |-> FALSE, rooms |-> {}, missed |-> <<>>]

\* ------------------------------------------------------------------ events
Msg(event, userId, userType, socketId) ==
  [event |-> event, userId |-> userId, userType |-> userType, socketId |-> socketId]

ConnectedMsg(id, s) == Msg("connected", id.userId, id.userType, s)
PingEcho == Msg("ping", Undef, Undef, Undef)

PongMsg == Msg("pong", Undef, Undef, Undef)
KycStatusResponseMsg(id) == Msg("kyc:status:response", id.userId, Undef, Undef)

\* ------------------------------------------------------------ collections
\* the documents the REST routes of admin.ts and auth.ts work on: one job
\* waiting for approval, one KYC submission of user u1, the accounts of
\* Users, and the OTPs created so far
JobAwaitingApproval == [approvalStatus |-> "pending", status |-> "pending"]

KycSubmitted == [userId |-> "u1", verificationStatus |-> "pending"]

Account(u) == [isActive |-> Users[u].isActive, kycStatus |-> "pending"]

InitialDb ==
  [Job  |-> [j \in {"j1"} |-> JobAwaitingApproval],
   KYC  |-> [k \in {"k1"} |-> KycSubmitted],
   User |-> [u \in DOMAIN Users |-> Account(u)],
   OTP  |-> {}]

RestIdle ==
  /\ mongo = InitialDb
  /\ requests = <<>>

\* -------------------------------------------------------------------- Init
NoVerdict == [db |-> "pending", result |-> Rejection(NoErr)]

GateInit ==
  /\ phase = [s \in Sockets |-> "idle"]
  /\ ident = [s \in Sockets |-> NoIdent]
  /\ authError = [s \in Sockets |-> NoErr]
  /\ rooms = [s \in Sockets |-> {}]
  /\ session = [s \in Sockets |-> NoSession]
  /\ recoveries = [s \in Sockets |-> 0]
  /\ connectedUsers = EmptyMap
  /\ sent = [s \in Sockets |-> <<>>]

NoCall == [userId |-> Undef, data |-> [x \in {} |-> Undef]]

NoOutbox == [done |-> FALSE]

PayloadIdle ==
  /\ dispatched = 0
  /\ call = NoCall
  /\ outbox = NoOutbox

Init ==
  /\ GateInit
  /\ handshake = [auth |-> NoString, authorization |-> NoString]
  /\ verdict = NoVerdict
  /\ PayloadIdle
  /\ RestIdle

\* ----------------------------------------------------------------- actions
\* io.use callback for a new transport connection, lines 45-92
Middleware(s, h, db) ==
  /\ phase[s] = "idle"
  /\ LET r == AuthMiddleware(h, db) IN
       /\ phase' = [phase EXCEPT ![s] = next(r.err)]
       /\ authError' = [authError EXCEPT ![s] = r.err]
       /\ ident' = [ident EXCEPT ![s] = r.ident]
  /\ UNCHANGED <<rooms, session, recoveries, connectedUsers, sent, handshake, verdict, dispatched, call, outbox, mongo, requests>>

\* the transport closes after next() and before socket.io connects the
\* socket: the connection handler never runs
Abort(s) ==
  /\ phase[s] = "authed"
  /\ phase' = [phase EXCEPT ![s] = "closed"]
  /\ UNCHANGED <<ident, authError, rooms, session, recoveries, connectedUsers,
                 sent, handshake, verdict, dispatched, call, outbox, mongo, requests>>

\* io.on('connection') callback up to the 'connected' emit, lines 96-131
OnConnection(s) ==
  /\ connectedUsers' = StoreUserConnection(connectedUsers, ident[s], s)
  /\ rooms' = [rooms EXCEPT ![s] = @ \cup DefaultRooms(ident[s])]
  /\ sent' = [sent EXCEPT ![s] = Append(@, ConnectedMsg(ident[s], s))]

Connection(s) ==
  /\ phase[s] = "authed"
  /\ phase' = [phase EXCEPT ![s] = "open"]
  /\ OnConnection(s)
  /\ UNCHANGED <<ident, authError, session, recoveries, handshake, verdict, dispatched, call, outbox, mongo, requests>>

\* 'disconnect' handler, lines 134-140, with socket.io's own cleanup
Disconnect(s, reason) ==
  /\ phase[s] = "open"
  /\ phase' = [phase EXCEPT ![s] = "closed"]
  /\ connectedUsers' = RemoveUserConnection(connectedUsers, ident[s], s)
  /\ session' = [session EXCEPT ![s] =
                   IF reason \in RecoverableReasons
                     THEN [saved |-> TRUE, rooms |-> rooms[s], missed |-> <<>>]
                     ELSE NoSession]
  /\ rooms' = [rooms EXCEPT ![s] = LeaveAll(@)]
  /\ UNCHANGED <<ident, authError, recoveries, sent, handshake, verdict, dispatched, call, outbox, mongo, requests>>

\* connectionStateRecovery with skipMiddlewares, lines 30-33: the client
\* comes back within the window, socket.io builds a new Socket object with
\* the old id and rooms, sends it the events it missed, skips io.use and
\* emits 'connection'
Recover(s) ==
  /\ phase[s] = "closed"
  /\ session[s].saved
  /\ recoveries[s] < MaxRecover
  /\ recoveries' = [recoveries EXCEPT ![s] = @ + 1]
  /\ phase' = [phase EXCEPT ![s] = "open"]
  /\ ident' = [ident EXCEPT ![s] = NoIdent]
  /\ session' = [session EXCEPT ![s] = NoSession]
  /\ connectedUsers' = StoreUserConnection(connectedUsers, NoIdent, s)
  /\ rooms' = [rooms EXCEPT ![s] = session[s].rooms \cup DefaultRooms(NoIdent)]
  /\ sent' = [sent EXCEPT ![s] =
                Append(@ \o session[s].missed, ConnectedMsg(NoIdent, s))]
  /\ UNCHANGED <<authError, handshake, verdict, dispatched, call, outbox, mongo, requests>>

\* Socket.join(room) / Socket.leave(room) on the socket's room set
joinOrToggle(rs, room) == IF room \in rs THEN rs \ {room} ELSE rs \cup {room}

join(rs, room) == rs \cup {room}

leave(rs, room) == rs \ {room}

\* 'join_job_room' handler, lines 143-146
JoinJobRoom(s, jobId) ==
  /\ phase[s] = "open"
  /\ rooms' = [rooms EXCEPT ![s] = join(@, JobRoom(jobId))]
  /\ UNCHANGED <<phase, ident, authError, session, recoveries, connectedUsers,
                 sent, handshake, verdict, dispatched, call, outbox, mongo, requests>>

\* 'leave_job_room' handler, lines 149-152
LeaveJobRoom(s, jobId) ==
  /\ phase[s] = "open"
  /\ rooms' = [rooms EXCEPT ![s] = leave(@, JobRoom(jobId))]
  /\ UNCHANGED <<phase, ident, authError, session, recoveries, connectedUsers,
                 sent, handshake, verdict, dispatched, call, outbox, mongo, requests>>

\* 'kyc:status:request' handler, lines 155-162
KycStatusRequest(s) ==
  /\ phase[s] = "open"
  /\ ident[s].userId # Undef => Len(sent[s]) < MaxSent
  /\ sent' = [sent EXCEPT ![s] =
                IF ident[s].userId # Undef
                  THEN Append(@, KycStatusResponseMsg(ident[s]))
                  ELSE @]
  /\ UNCHANGED <<phase, ident, authError, rooms, session, recoveries,
                 connectedUsers, handshake, verdict, dispatched, call, outbox, mongo, requests>>

\* 'ping' handler, lines 165-167
Ping(s) ==
  /\ phase[s] = "open"
  /\ Len(sent[s]) < MaxSent
  /\ sent' = [sent EXCEPT ![s] = Append(@, PongMsg)]
  /\ UNCHANGED <<phase, ident, authError, rooms, session, recoveries,
                 connectedUsers, handshake, verdict, dispatched, call, outbox, mongo, requests>>

Next ==
  \/ \E s \in Sockets, h \in Handshakes, db \in DbOutcomes : Middleware(s, h, db)
  \/ \E s \in Sockets : Abort(s)
  \/ \E s \in Sockets : Connection(s)
  \/ \E s \in Sockets, reason \in Reasons : Disconnect(s, reason)
  \/ \E s \in Sockets : Recover(s)
  \/ \E s \in Sockets, jobId \in JobIdArgs : JoinJobRoom(s, jobId)
  \/ \E s \in Sockets, jobId \in JobIdArgs : LeaveJobRoom(s, jobId)
  \/ \E s \in Sockets : KycStatusRequest(s)
  \/ \E s \in Sockets : Ping(s)

Spec == Init /\ [][Next]_vars

\* ------------------------------------------- the middleware on its own
InitAuth ==
  /\ GateInit
  /\ handshake \in Handshakes
  /\ verdict = NoVerdict
  /\ PayloadIdle
  /\ RestIdle

Authenticate ==
  /\ verdict = NoVerdict
  /\ \E db \in DbOutcomes :
       verdict' = [db |-> db, result |-> AuthMiddleware(handshake, db)]
  /\ UNCHANGED <<handshake, phase, ident, authError, rooms, session, recoveries,
                 connectedUsers, sent, dispatched, call, outbox, mongo, requests>>

NextAuth == Authenticate

SpecAuth == InitAuth /\ [][NextAuth]_vars

\* -------------------------------------------------------------- dispatcher
\* dispatcher calls are made only while fewer than this have been made
MaxDispatch == 1

\* new Date() / new Date().toISOString() at the time of the call
Now == "server-time"

\* data.f for a field the object may lack
Field(d, f) == IF f \in DOMAIN d THEN d[f] ELSE Undef

\* { ...a, ...b }: the fields of both, b's value where both have the field
SpreadKeepFirst(a, b) ==
  [f \in DOMAIN a \cup DOMAIN b |-> IF f \in DOMAIN a THEN a[f] ELSE b[f]]

Spread(a, b) ==
  [f \in DOMAIN a \cup DOMAIN b |-> IF f \in DOMAIN b THEN b[f] ELSE a[f]]

Timestamp == [timestamp |-> Now]

\* the objects the dispatcher methods emit
KycStatusUpdateData(statusData) == Spread(statusData, Timestamp)
KycAdminUpdateData(userId, statusData) ==
  Spread(Spread([userId |-> userId], statusData), Timestamp)
JobApprovalData(jobId, jobData) ==
  [jobId |-> jobId, job |-> jobData, timestamp |-> Now]
NewApplicationData(applicationData) == Spread(applicationData, Timestamp)
ToAdminsData(data) == Spread(data, Timestamp)
ToUserData(data) == Spread(data, Timestamp)
JobApprovedData(jobData) ==
  [type |-> "job_approved", job |-> jobData, timestamp |-> Now,
   message |-> <<"New job approved: ", Field(jobData, "jobTitle"), " at ",
                 Field(jobData, "companyName")>>]
JobRejectedData(jobData) ==
  [type |-> "job_rejected", job |-> jobData, timestamp |-> Now,
   message |-> <<"Your job \"", Field(jobData, "jobTitle"), "\" was rejected">>]
NotifyNewApplicationData(applicationData) ==
  [type |-> "new_application", application |-> applicationData, timestamp |-> Now,
   message |-> <<"New application received for \"",
                 Field(applicationData, "jobTitle"), "\"">>]
ApplicationStatusUpdateData(applicationData) ==
  [type |-> "application_status_update", application |-> applicationData,
   timestamp |-> Now,
   message |-> <<"Your application status updated: ",
                 Field(applicationData, "status")>>]

\* an emitted event: its name, the rooms it was addressed to (none for
\* io.emit) and its data
Event(name, target, data) == [event |-> name, to |-> target, data |-> data]

\* the room sets of io.to(...) and of io.emit
EveryoneInsteadOfUser(userId) == {}

UserTarget(userId) == {PersonalRoom(userId)}

AdminTarget == {AdminRoom}

EveryoneInsteadOfStudents == {}

StudentTarget == {RoleRoom("student")}

JobTargetByTitle(applicationData) ==
  {JobRoom(<<Field(applicationData, "jobTitle")>>)}

JobTarget(applicationData) == {JobRoom(<<Field(applicationData, "jobId")>>)}

Everyone == {}

\* a socket with rooms rs is addressed by a broadcast to target
InTargetAll(rs, target) == TRUE

InTarget(rs, target) == target = {} \/ rs \cap target # {}

\* one BroadcastOperator.emit: every open socket in the target gets the
\* event; a session kept for recovery whose rooms are in the target keeps it
Deliver(st, target, ev) ==
  [sent |->
     [s \in Sockets |->
        IF phase[s] = "open" /\ InTarget(rooms[s], target)
          THEN Append(st.sent[s], ev) ELSE st.sent[s]],
   session |->
     [s \in Sockets |->
        IF phase[s] = "closed" /\ st.session[s].saved
             /\ InTarget(st.session[s].rooms, target)
          THEN [st.session[s] EXCEPT !.missed = Append(@, ev)]
          ELSE st.session[s]]]

\* two emits of one method, one after the other
DeliverOnce(st, target1, ev1, target2, ev2) ==
  Deliver(st, target1 \cup target2, ev1)

DeliverSwapped(st, target1, ev1, target2, ev2) ==
  Deliver(Deliver(st, target2, ev2), target1, ev1)

DeliverBoth(st, target1, ev1, target2, ev2) ==
  Deliver(Deliver(st, target1, ev1), target2, ev2)

Outbound == [sent |-> sent, session |-> session]

\* a dispatcher method runs to its end and leaves st
Dispatch(st) ==
  /\ dispatched < MaxDispatch
  /\ dispatched' = dispatched + 1
  /\ sent' = st.sent
  /\ session' = st.session
  /\ UNCHANGED <<phase, ident, authError, rooms, recoveries, connectedUsers,
                 handshake, verdict, call, outbox, mongo, requests>>

\* lines 172-187
emitKYCStatusUpdate(userId, statusData) ==
  Dispatch(DeliverBoth(Outbound,
     UserTarget(userId),
     Event("kyc:status:update", UserTarget(userId), KycStatusUpdateData(statusData)),
     AdminTarget,
     Event("kyc:admin:update", AdminTarget, KycAdminUpdateData(userId, statusData))))

\* lines 190-201
emitJobApproval(jobId, jobData) ==
  Dispatch(Deliver(Outbound, Everyone,
     Event("job:approved", Everyone, JobApprovalData(jobId, jobData))))

\* lines 204-214
emitNewApplication(employerId, applicationData) ==
  Dispatch(Deliver(Outbound, UserTarget(employerId),
     Event("application:new", UserTarget(employerId),
           NewApplicationData(applicationData))))

\* lines 217-223
emitToAdmins(event, data) ==
  Dispatch(Deliver(Outbound, AdminTarget,
     Event(event, AdminTarget, ToAdminsData(data))))

\* lines 226-232
emitToUser(userId, event, data) ==
  Dispatch(Deliver(Outbound, UserTarget(userId),
     Event(event, UserTarget(userId), ToUserData(data))))

\* lines 247-256
notifyJobApproved(jobData) ==
  Dispatch(Deliver(Outbound, StudentTarget,
     Event("job_approved", StudentTarget, JobApprovedData(jobData))))

\* lines 259-268
notifyJobRejected(jobData, employerId) ==
  Dispatch(Deliver(Outbound, UserTarget(employerId),
     Event("job_rejected", UserTarget(employerId), JobRejectedData(jobData))))

\* lines 271-288
notifyNewApplication(applicationData, employerId) ==
  Dispatch(DeliverBoth(Outbound,
     UserTarget(employerId),
     Event("new_application", UserTarget(employerId),
           NotifyNewApplicationData(applicationData)),
     JobTarget(applicationData),
     Event("new_application", JobTarget(applicationData),
           NotifyNewApplicationData(applicationData))))

\* lines 291-300
notifyApplicationStatusUpdate(applicationData, studentId) ==
  Dispatch(Deliver(Outbound, UserTarget(studentId),
     Event("application_status_update", UserTarget(studentId),
           ApplicationStatusUpdateData(applicationData))))

\* what the callers pass while sockets come and go: one job, and the users
\* u1 (student) and u2 (admin)
DispatchPayloads ==
  {[jobId |-> "42", jobTitle |-> "Tutor", companyName |-> "Acme", status |-> "approved"]}

DispatchUsers == {"u1", "u2"}

DispatchEvents == {"notice"}

DispatchJobIds == {<<"42">>}

DispatchHandshakes ==
  {[auth |-> TokenString(t), authorization |-> NoString] :
     t \in {"jwt-u1", "jwt-u2", "jwt-u1-expired"}}

NextDispatch ==
  \/ \E s \in Sockets, h \in DispatchHandshakes : Middleware(s, h, "resolves")
  \/ \E s \in Sockets : Connection(s)
  \/ \E s \in Sockets, reason \in Reasons : Disconnect(s, reason)
  \/ \E s \in Sockets : Recover(s)
  \/ \E s \in Sockets, jobId \in DispatchJobIds : JoinJobRoom(s, jobId)
  \/ \E s \in Sockets, jobId \in DispatchJobIds : LeaveJobRoom(s, jobId)
  \/ \E u \in DispatchUsers, d \in DispatchPayloads : emitKYCStatusUpdate(u, d)
  \/ \E d \in DispatchPayloads : emitJobApproval(d.jobId, d)
  \/ \E u \in DispatchUsers, d \in DispatchPayloads : emitNewApplication(u, d)
  \/ \E e \in DispatchEvents, d \in DispatchPayloads : emitToAdmins(e, d)
  \/ \E u \in DispatchUsers, e \in DispatchEvents, d \in DispatchPayloads :
       emitToUser(u, e, d)
  \/ \E d \in DispatchPayloads : notifyJobApproved(d)
  \/ \E u \in DispatchUsers, d \in DispatchPayloads : notifyJobRejected(d, u)
  \/ \E u \in DispatchUsers, d \in DispatchPayloads : notifyNewApplication(d, u)
  \/ \E u \in DispatchUsers, d \in DispatchPayloads :
       notifyApplicationStatusUpdate(d, u)

SpecDispatch == Init /\ [][NextDispatch]_vars

\* ------------------------------------- control messages without an argument
\* what a client may send with join_job_room / leave_job_room when it may
\* also leave the job id out
ControlJobIds == {NoString, <<"42">>}

NextControl ==
  \/ \E s \in Sockets, h \in DispatchHandshakes : Middleware(s, h, "resolves")
  \/ \E s \in Sockets : Connection(s)
  \/ \E s \in Sockets, reason \in Reasons : Disconnect(s, reason)
  \/ \E s \in Sockets, jobId \in ControlJobIds : JoinJobRoom(s, jobId)
  \/ \E s \in Sockets, jobId \in ControlJobIds : LeaveJobRoom(s, jobId)

SpecControl == Init /\ [][NextControl]_vars

\* ------------------------------------ the connection handler step by step
\* positions inside the connection handler: after "Store user connection",
\* after the personal-room join, after the role-room join, after the admin
\* join; the 'connected' emit ends it
HandlerPhases == {"stored", "in-personal", "in-role", "in-admin"}

\* The handler has no await and the in-memory adapter joins synchronously:
\* Node runs the callback to its end before it takes the next one, so no
\* callback starts while a socket is inside the handler
Preemptive == TRUE

RunToCompletion == \A s \in Sockets : phase[s] \notin HandlerPhases

\* lines 100-104
StoreStep(s) ==
  /\ RunToCompletion
  /\ phase[s] = "authed"
  /\ phase' = [phase EXCEPT ![s] = "stored"]
  /\ connectedUsers' = StoreUserConnection(connectedUsers, ident[s], s)
  /\ UNCHANGED <<ident, authError, rooms, session, recoveries, sent,
                 handshake, verdict, dispatched, call, outbox, mongo, requests>>

\* lines 106-110
JoinPersonalStep(s) ==
  /\ phase[s] = "stored"
  /\ phase' = [phase EXCEPT ![s] = "in-personal"]
  /\ rooms' = [rooms EXCEPT ![s] =
                 IF ident[s].userId # Undef
                   THEN join(@, PersonalRoom(ident[s].userId)) ELSE @]
  /\ UNCHANGED <<ident, authError, session, recoveries, connectedUsers, sent,
                 handshake, verdict, dispatched, call, outbox, mongo, requests>>

\* lines 112-116
JoinRoleStep(s) ==
  /\ phase[s] = "in-personal"
  /\ phase' = [phase EXCEPT ![s] = "in-role"]
  /\ rooms' = [rooms EXCEPT ![s] =
                 IF ident[s].userType # Undef
                   THEN join(@, RoleRoom(ident[s].userType)) ELSE @]
  /\ UNCHANGED <<ident, authError, session, recoveries, connectedUsers, sent,
                 handshake, verdict, dispatched, call, outbox, mongo, requests>>

\* lines 118-122
JoinAdminStep(s) ==
  /\ phase[s] = "in-role"
  /\ phase' = [phase EXCEPT ![s] = "in-admin"]
  /\ rooms' = [rooms EXCEPT ![s] =
                 IF ident[s].userType = "admin" THEN join(@, AdminRoom) ELSE @]
  /\ UNCHANGED <<ident, authError, session, recoveries, connectedUsers, sent,
                 handshake, verdict, dispatched, call, outbox, mongo, requests>>

\* lines 124-131; the handlers installed after it (lines 133-167) answer
\* from now on
AckStep(s) ==
  /\ phase[s] = "in-admin"
  /\ phase' = [phase EXCEPT ![s] = "open"]
  /\ sent' = [sent EXCEPT ![s] = Append(@, ConnectedMsg(ident[s], s))]
  /\ UNCHANGED <<ident, authError, rooms, session, recoveries, connectedUsers,
                 handshake, verdict, dispatched, call, outbox, mongo, requests>>

NextSteps ==
  \/ \E s \in Sockets, h \in DispatchHandshakes :
       RunToCompletion /\ Middleware(s, h, "resolves")
  \/ \E s \in Sockets : StoreStep(s)
  \/ \E s \in Sockets : JoinPersonalStep(s)
  \/ \E s \in Sockets : JoinRoleStep(s)
  \/ \E s \in Sockets : JoinAdminStep(s)
  \/ \E s \in Sockets : AckStep(s)
  \/ \E s \in Sockets, reason \in Reasons :
       RunToCompletion /\ Disconnect(s, reason)
  \/ \E s \in Sockets : RunToCompletion /\ Recover(s)
  \/ \E u \in DispatchUsers, e \in DispatchEvents, d \in DispatchPayloads :
       RunToCompletion /\ emitToUser(u, e, d)
  \/ \E u \in DispatchUsers, d \in DispatchPayloads :
       RunToCompletion /\ emitKYCStatusUpdate(u, d)
  \/ \E d \in DispatchPayloads : RunToCompletion /\ notifyJobApproved(d)

SpecSteps == Init /\ [][NextSteps]_vars

\* ------------------------------------------- the emitted objects alone
\* payloads a caller may hand over: any of these fields, with a caller's
\* value
PayloadFields == {"status", "jobId", "timestamp", "userId"}

PayloadValues == {"caller-1", "caller-2"}

Payloads == UNION {[fs -> PayloadValues] : fs \in SUBSET PayloadFields}

InitPayload ==
  /\ GateInit
  /\ handshake = [auth |-> NoString, authorization |-> NoString]
  /\ verdict = NoVerdict
  /\ dispatched = 0
  /\ call \in [userId : DispatchUsers, data : Payloads]
  /\ outbox = NoOutbox
  /\ RestIdle

\* the objects emitToUser, emitToAdmins and emitKYCStatusUpdate emit for
\* the call
BuildPayloads ==
  /\ ~outbox.done
  /\ outbox' = [done     |-> TRUE,
                toUser   |-> ToUserData(call.data),
                toAdmins |-> ToAdminsData(call.data),
                kycUser  |-> KycStatusUpdateData(call.data),
                kycAdmin |-> KycAdminUpdateData(call.userId, call.data)]
  /\ UNCHANGED <<phase, ident, authError, rooms, session, recoveries,
                 connectedUsers, sent, handshake, verdict, dispatched, call,
                 mongo, requests>>

NextPayload == BuildPayloads

SpecPayload == InitPayload /\ [][NextPayload]_vars

\* ------------------------------------------------------------- REST routes
\* An async route handler runs from one await to the next without
\* interruption; between two awaits the handlers of other requests may run.
\* A request is received and runs up to the result of its first query in one
\* step, and each later step is one awaited write.

\* requests are received only while fewer than this have been
MaxRequests == 2

\* the admin these requests are authenticated as (req.user._id)
AdminIds == {u \in DOMAIN Users : Users[u].userType = "admin"}

\* values of the :id parameter: not an ObjectId, an ObjectId without a
\* document, and the ids of the documents
InvalidId == "not-an-object-id"
MissingId == "64b000000000000000000000"

\* mongoose.Types.ObjectId.isValid(id)
isValid(id) == id # InvalidId

\* Model.findById(id)
NotFound == [found |-> FALSE]

findById(collection, id) ==
  IF id \in DOMAIN collection
    THEN [found |-> TRUE, doc |-> collection[id]]
    ELSE NotFound

\* doc.save(): the paths whose value differs from the loaded one are written
save(collection, id, loaded, doc) ==
  [collection EXCEPT ![id] =
     [f \in DOMAIN @ |-> IF doc[f] # loaded[f] THEN doc[f] ELSE @[f]]]

\* responses: none yet, sendSuccessResponse, and what the error handler
\* sends for a thrown ValidationError or for sendErrorResponse
NoResponse == [sent |-> FALSE]

SuccessResponse(message) ==
  [sent |-> TRUE, success |-> TRUE, message |-> message]

ValidationError(message) ==
  [sent |-> TRUE, success |-> FALSE, message |-> message]

ErrorResponse(message) ==
  [sent |-> TRUE, success |-> FALSE, message |-> message]

\* a request as received, with the document its first query loaded and the
\* response decided so far
Request(route, by, id, body, loaded, res) ==
  [route |-> route, by |-> by, id |-> id, body |-> body,
   pc |-> IF res.sent THEN "done" ELSE "loaded",
   loaded |-> loaded, res |-> res]

Receive(req) ==
  /\ Len(requests) < MaxRequests
  /\ requests' = Append(requests, req)

\* request i goes on to pc with response res
Continue(i, pc, res) ==
  requests' = [requests EXCEPT ![i].pc = pc, ![i].res = res]

\* ------------------------------------------------ PATCH /jobs/:id/approve
JobParamIds == {InvalidId, MissingId, "j1"}

ReasonArgs == {NoString, <<" ">>, <<"duplicate">>}

\* the checks of lines 172-183 and 201-212 on the result of Job.findById
JobDecisionChecks(id, loaded) ==
  IF ~isValid(id) THEN ValidationError("Invalid job ID")
  ELSE IF ~loaded.found THEN ValidationError("Job not found")
  ELSE IF loaded.doc.approvalStatus # "pending"
    THEN ValidationError("Job is not pending approval")
  ELSE NoResponse

\* the assignments of lines 185-188 and of lines 214-218
ApprovedJobKeepStatus(job) == [job EXCEPT !.approvalStatus = "approved"]

ApprovedJob(job) ==
  [job EXCEPT !.approvalStatus = "approved", !.status = "active"]

RejectedJob(job) ==
  [job EXCEPT !.approvalStatus = "rejected", !.status = "closed"]

\* lines 169-183: up to the checks on the loaded job
ApproveJob(by, id) ==
  /\ LET loaded == findById(mongo.Job, id) IN
       Receive(Request("jobs/approve", by, id, NoString, loaded,
                       JobDecisionChecks(id, loaded)))
  /\ UNCHANGED <<socketVars, mongo>>

\* lines 197-212
RejectJob(by, id, reason) ==
  /\ LET loaded == findById(mongo.Job, id) IN
       Receive(Request("jobs/reject", by, id, reason, loaded,
                       JobDecisionChecks(id, loaded)))
  /\ UNCHANGED <<socketVars, mongo>>

\* lines 185-191: job.save() and the response
ApproveJobSave(i) ==
  /\ requests[i].route = "jobs/approve"
  /\ requests[i].pc = "loaded"
  /\ mongo' = [mongo EXCEPT !.Job =
                 save(@, requests[i].id, requests[i].loaded.doc,
                      ApprovedJob(requests[i].loaded.doc))]
  /\ Continue(i, "done", SuccessResponse("Job approved successfully"))
  /\ UNCHANGED socketVars

\* lines 214-221
RejectJobSave(i) ==
  /\ requests[i].route = "jobs/reject"
  /\ requests[i].pc = "loaded"
  /\ mongo' = [mongo EXCEPT !.Job =
                 save(@, requests[i].id, requests[i].loaded.doc,
                      RejectedJob(requests[i].loaded.doc))]
  /\ Continue(i, "done", SuccessResponse("Job rejected successfully"))
  /\ UNCHANGED socketVars

NextJobs ==
  \/ \E by \in AdminIds, id \in JobParamIds : ApproveJob(by, id)
  \/ \E by \in AdminIds, id \in JobParamIds, reason \in ReasonArgs :
       RejectJob(by, id, reason)
  \/ \E i \in DOMAIN requests : ApproveJobSave(i)
  \/ \E i \in DOMAIN requests : RejectJobSave(i)

SpecJobs == Init /\ [][NextJobs]_vars

\* --------------------------------------------------- PUT /kyc/:id/approve
KycParamIds == {InvalidId, MissingId, "k1"}

\* String.prototype.trim on a string of chunks
RECURSIVE trimStart(_)
trimStart(str) ==
  IF str # <<>> /\ Head(str) = " " THEN trimStart(Tail(str)) ELSE str

RECURSIVE trimEnd(_)
trimEnd(str) ==
  IF str # <<>> /\ str[Len(str)] = " "
    THEN trimEnd(SubSeq(str, 1, Len(str) - 1)) ELSE str

trim(str) == trimEnd(trimStart(str))

\* !reason || reason.trim().length === 0
Blank(reason) == ~Truthy(reason) \/ Len(trim(reason)) = 0

\* what each route writes to the submission and to its user
VerificationStatusOf(route) ==
  CASE route = "kyc/approve" -> "approved"
    [] route = "kyc/reject"  -> "rejected"
    [] route = "kyc/pending" -> "pending"

KycStatusOf(route) ==
  CASE route = "kyc/approve" -> "verified"
    [] route = "kyc/reject"  -> "rejected"
    [] route = "kyc/pending" -> "pending"

KycDoneMessage(route) ==
  CASE route = "kyc/approve" -> "KYC submission approved successfully"
    [] route = "kyc/reject"  -> "KYC submission rejected successfully"
    [] route = "kyc/pending" -> "KYC submission set to pending successfully"

\* lines 305-321: up to the result of KYC.findById
ApproveKyc(by, id) ==
  /\ LET loaded == findById(mongo.KYC, id) IN
       Receive(Request("kyc/approve", by, id, NoString, loaded,
         IF ~isValid(id) THEN ValidationError("Invalid KYC ID")
         ELSE IF ~loaded.found THEN ValidationError("KYC submission not found")
         ELSE NoResponse))
  /\ UNCHANGED <<socketVars, mongo>>

\* lines 358-381
RejectKyc(by, id, reason) ==
  /\ LET loaded == findById(mongo.KYC, id) IN
       Receive(Request("kyc/reject", by, id, reason, loaded,
         IF ~isValid(id) THEN ValidationError("Invalid KYC ID")
         ELSE IF Blank(reason) THEN ValidationError("Rejection reason is required")
         ELSE IF ~loaded.found THEN ValidationError("KYC submission not found")
         ELSE NoResponse))
  /\ UNCHANGED <<socketVars, mongo>>

\* lines 420-437
PendingKyc(by, id) ==
  /\ LET loaded == findById(mongo.KYC, id) IN
       Receive(Request("kyc/pending", by, id, NoString, loaded,
         IF ~isValid(id) THEN ErrorResponse("Invalid KYC ID")
         ELSE IF ~loaded.found THEN ErrorResponse("KYC submission not found")
         ELSE NoResponse))
  /\ UNCHANGED <<socketVars, mongo>>

KycRoutes == {"kyc/approve", "kyc/reject", "kyc/pending"}

\* kyc.save(), lines 334-337, 394-398, 446-448
KycSave(i) ==
  /\ requests[i].route \in KycRoutes
  /\ requests[i].pc = "loaded"
  /\ mongo' = [mongo EXCEPT !.KYC =
                 save(@, requests[i].id, requests[i].loaded.doc,
                      [requests[i].loaded.doc EXCEPT
                         !.verificationStatus =
                            VerificationStatusOf(requests[i].route)])]
  /\ requests' = [requests EXCEPT ![i].pc = "saved"]
  /\ UNCHANGED socketVars

\* User.findByIdAndUpdate(kyc.userId, {kycStatus}) and the response, lines
\* 345-352, 407-414, 453-460
KycUpdateUser(i) ==
  /\ requests[i].route \in KycRoutes
  /\ requests[i].pc = "saved"
  /\ mongo' = [mongo EXCEPT
                 !.User[requests[i].loaded.doc.userId].kycStatus =
                    KycStatusOf(requests[i].route)]
  /\ Continue(i, "done", SuccessResponse(KycDoneMessage(requests[i].route)))
  /\ UNCHANGED socketVars

NextKyc ==
  \/ \E by \in AdminIds, id \in KycParamIds : ApproveKyc(by, id)
  \/ \E by \in AdminIds, id \in KycParamIds, reason \in ReasonArgs :
       RejectKyc(by, id, reason)
  \/ \E by \in AdminIds, id \in KycParamIds : PendingKyc(by, id)
  \/ \E i \in DOMAIN requests : KycSave(i)
  \/ \E i \in DOMAIN requests : KycUpdateUser(i)

SpecKyc == Init /\ [][NextKyc]_vars

\* ------------------------------------------------ POST /forgot-password
\* req.body.email: absent, empty, the address of an account, an address of
\* no account
EmailArgs ==
  {NoString, <<>>, <<"nobody@mail">>} \cup {<<Users[u].email>> : u \in DOMAIN Users}

\* User.findOne({ email })
findOne(email) ==
  IF \E u \in DOMAIN Users : <<Users[u].email>> = email
    THEN [found |-> TRUE,
          doc   |-> Users[CHOOSE u \in DOMAIN Users : <<Users[u].email>> = email]]
    ELSE NotFound

GenericMessage == "If an account with that email exists, an OTP has been sent"

\* the response after sendOTPEmail, lines 689-695
AfterSend(emailSent) ==
  IF ~emailSent
    THEN ValidationError("Failed to send OTP email. Please check your email configuration.")
    ELSE SuccessResponse(GenericMessage)

\* lines 661-674: up to the result of User.findOne
ForgotPassword(email) ==
  /\ LET loaded == IF Truthy(email) THEN findOne(email) ELSE NotFound IN
       Receive(Request("forgot-password", Undef, Undef, email, loaded,
         IF ~Truthy(email) THEN ValidationError("Email is required")
         ELSE IF ~loaded.found THEN SuccessResponse(GenericMessage)
         ELSE NoResponse))
  /\ UNCHANGED <<socketVars, mongo>>

\* lines 676-684: OTP.create
ForgotPasswordCreateOtp(i) ==
  /\ requests[i].route = "forgot-password"
  /\ requests[i].pc = "loaded"
  /\ mongo' = [mongo EXCEPT !.OTP =
                 @ \cup {[email |-> requests[i].body,
                          purpose |-> "password-reset", request |-> i]}]
  /\ requests' = [requests EXCEPT ![i].pc = "otp"]
  /\ UNCHANGED socketVars

\* lines 686-695: sendOTPEmail resolves to emailSent, then the response
ForgotPasswordSend(i, emailSent) ==
  /\ requests[i].route = "forgot-password"
  /\ requests[i].pc = "otp"
  /\ Continue(i, "done", AfterSend(emailSent))
  /\ UNCHANGED <<socketVars, mongo>>

NextForgot ==
  \/ \E email \in EmailArgs : ForgotPassword(email)
  \/ \E i \in DOMAIN requests : ForgotPasswordCreateOtp(i)
  \/ \E i \in DOMAIN requests, emailSent \in BOOLEAN :
       ForgotPasswordSend(i, emailSent)

SpecForgot == Init /\ [][NextForgot]_vars

\* ------------------------------------------------------ DELETE /users/:id
UserParamIds == {InvalidId, MissingId} \cup DOMAIN Users

\* (user._id as any).toString() === (req.user!._id as string).toString()
IsSelfNever(userId, adminId) == FALSE

IsSelf(userId, adminId) == userId = adminId

\* the checks of lines 533-546 and 560-573 on the result of User.findById
DeactivationChecks(by, id, loaded, selfMessage) ==
  IF ~isValid(id) THEN ValidationError("Invalid user ID")
  ELSE IF ~loaded.found THEN ValidationError("User not found")
  ELSE IF IsSelf(id, by) THEN ValidationError(selfMessage)
  ELSE NoResponse

\* user.isActive = false
Deactivated(user) == [user EXCEPT !.isActive = FALSE]

\* lines 530-546: up to the checks on the loaded user
DeleteUser(by, id) ==
  /\ LET loaded == findById(mongo.User, id) IN
       Receive(Request("users/delete", by, id, NoString, loaded,
         DeactivationChecks(by, id, loaded, "Cannot delete your own account")))
  /\ UNCHANGED <<socketVars, mongo>>

\* lines 557-573
SuspendUser(by, id) ==
  /\ LET loaded == findById(mongo.User, id) IN
       Receive(Request("users/suspend", by, id, NoString, loaded,
         DeactivationChecks(by, id, loaded, "Cannot suspend your own account")))
  /\ UNCHANGED <<socketVars, mongo>>

\* lines 548-551: user.save() and the response
DeleteUserSave(i) ==
  /\ requests[i].route = "users/delete"
  /\ requests[i].pc = "loaded"
  /\ mongo' = [mongo EXCEPT !.User =
                 save(@, requests[i].id, requests[i].loaded.doc,
                      Deactivated(requests[i].loaded.doc))]
  /\ Continue(i, "done", SuccessResponse("User deleted successfully"))
  /\ UNCHANGED socketVars

\* lines 575-577
SuspendUserSave(i) ==
  /\ requests[i].route = "users/suspend"
  /\ requests[i].pc = "loaded"
  /\ mongo' = [mongo EXCEPT !.User =
                 save(@, requests[i].id, requests[i].loaded.doc,
                      Deactivated(requests[i].loaded.doc))]
  /\ Continue(i, "done", SuccessResponse("User suspended successfully"))
  /\ UNCHANGED socketVars

NextUsers ==
  \/ \E by \in AdminIds, id \in UserParamIds : DeleteUser(by, id)
  \/ \E by \in AdminIds, id \in UserParamIds : SuspendUser(by, id)
  \/ \E i \in DOMAIN requests : DeleteUserSave(i)
  \/ \E i \in DOMAIN requests : SuspendUserSave(i)

SpecUsers == Init /\ [][NextUsers]_vars

\* ----------------------------------------------------------- vocabulary
\* socket ids held in the registry
Registered == {connectedUsers[u] : u \in DOMAIN connectedUsers}

\* the socket went from the middleware into the connection handler
Connects(s) == phase[s] = "authed" /\ phase'[s] = "open"

\* the socket's disconnect handler ran
Disconnects(s) == phase[s] = "open" /\ phase'[s] = "closed"

\* open sockets that carry the identity of user u
OpenSocketsOf(u) == {s \in Sockets : phase[s] = "open" /\ ident[s].userId = u}

\* the rooms whose membership comes from the identity
ReservedRooms ==
  {PersonalRoom(u) : u \in UserIds} \cup {RoleRoom(r) : r \in Roles} \cup {AdminRoom}

Acked(s) == \E i \in 1..Len(sent[s]) : sent[s][i].event = "connected"

\* ------------------------------------------------------------------ claims

\* C1: when the connection handler has run for a socket that passed
\* authentication, isUserConnected(userId) is true and the registry maps that
\* userId to the new socket id.
C1_RegisteredAfterConnect ==
  [][\A s \in Sockets :
       Connects(s) =>
         /\ isUserConnected(ident[s].userId)'
         /\ connectedUsers'[ident[s].userId] = s]_vars

C1_Witness ==
  \E s \in Sockets :
    /\ phase[s] = "open"
    /\ ident[s].userId = "u1"
    /\ isUserConnected("u1")
    /\ connectedUsers["u1"] = s

\* C2: in every state isUserConnected(u) is true exactly when some
\* authenticated socket of u is open, also while u holds several sockets and
\* one of them closes.
C2_OnlineIffOpenSocket ==
  \A u \in UserIds : isUserConnected(u) <=> OpenSocketsOf(u) # {}

\* C3: a socket that has disconnected is held neither by the registry nor by
\* any room.
C3_AbsentAfterDisconnect ==
  \A s \in Sockets :
    phase[s] = "closed" => s \notin Registered /\ rooms[s] = {}

C3_Witness ==
  \E s \in Sockets :
    /\ phase[s] = "closed"
    /\ session[s].saved
    /\ PersonalRoom("u2") \in session[s].rooms
    /\ AdminRoom \in session[s].rooms
    /\ JobRoom(<<"42">>) \in session[s].rooms

\* C4: a disconnect takes only the closing socket out of the registry: the
\* entry of a user goes away only when no other socket of that user stays
\* open, and every other socket keeps its registration and its rooms.
C4_DisconnectFrame ==
  [][\A s \in Sockets :
       Disconnects(s) =>
         /\ \A t \in Sockets \ {s} :
              /\ t \in Registered => t \in Registered'
              /\ rooms'[t] = rooms[t]
         /\ \A u \in DOMAIN connectedUsers :
              u \notin DOMAIN connectedUsers' => OpenSocketsOf(u) \ {s} = {}]_vars

\* C5: every socket id stored in the registry belongs to an open socket.
C5_NoStaleId ==
  \A u \in DOMAIN connectedUsers : phase[connectedUsers[u]] = "open"

C5_Witness ==
  \E s, t \in Sockets :
    /\ s # t
    /\ phase[s] = "closed" /\ Len(sent[s]) > 0 /\ sent[s][1].userId = "u1"
    /\ phase[t] = "open" /\ ident[t].userId = "u1"
    /\ connectedUsers["u1"] = t

\* C6: a socket whose authentication failed is never in the registry, never
\* in a room, is never sent 'connected', and its rejection leaves
\* getConnectedUsersCount() as it was.
C6_RejectedLeavesNoTrace ==
  [][\A s \in Sockets :
       authError'[s] # NoErr =>
         /\ s \notin Registered'
         /\ rooms'[s] = {}
         /\ ~Acked(s)'
         /\ authError[s] = NoErr => getConnectedUsersCount' = getConnectedUsersCount]_vars

C6_Witness ==
  \E s, t \in Sockets :
    /\ phase[s] = "rejected"
    /\ authError[s] = ErrInvalidToken
    /\ phase[t] = "open"
    /\ getConnectedUsersCount = 1

\* the handshake carries a token in the auth field / in the header
AuthFieldToken(h) == h.auth # NoString /\ h.auth # <<>>
HeaderToken(h) ==
  \E t \in Tokens : h.authorization = <<BearerPrefix, t>> \/ h.authorization = <<t>>

\* the token carried by the header
HeaderTokenOf(h) == h.authorization[Len(h.authorization)]

MiddlewareRan == verdict.db # "pending"

\* C7: a token whose subject has no account, or an account with isActive
\* false, is rejected with "User not found".
C7_MissingOrInactiveRejected ==
  \A t \in Tokens :
    /\ MiddlewareRan
    /\ verdict.db = "resolves"
    /\ handshake.auth = <<t>>
    /\ Jwt[t].verifies
    /\ \/ Jwt[t].userId \notin DOMAIN Users
       \/ ~Users[Jwt[t].userId].isActive
    => verdict.result.err = ErrUserNotFound

\* C8: no token in auth field and header is rejected with "No token
\* provided"; a presented token that jwt.verify refuses is rejected with
\* "Invalid token"; with a token in both places the auth-field token is the
\* one that decides.
C8_FailureClassified ==
  MiddlewareRan =>
    /\ ~AuthFieldToken(handshake) /\ ~HeaderToken(handshake)
         => verdict.result.err = ErrNoToken
    /\ AuthFieldToken(handshake) /\ ~Jwt[handshake.auth[1]].verifies
         => verdict.result.err = ErrInvalidToken
    /\ ~AuthFieldToken(handshake) /\ HeaderToken(handshake)
       /\ ~Jwt[HeaderTokenOf(handshake)].verifies
         => verdict.result.err = ErrInvalidToken
    /\ AuthFieldToken(handshake) /\ HeaderToken(handshake)
         => /\ verdict.result.err = NoErr
                 => verdict.result.ident.userId = Jwt[handshake.auth[1]].userId
            /\ verdict.result.err = ErrUserNotFound
                 => Jwt[handshake.auth[1]].userId \notin DOMAIN Users
            /\ Jwt[handshake.auth[1]].verifies
                 => verdict.result.err # ErrNoToken
                    /\ (verdict.db = "resolves" => verdict.result.err # ErrInvalidToken)

C8_Witness ==
  /\ MiddlewareRan
  /\ handshake.auth = <<"jwt-u1-expired">>
  /\ handshake.authorization = <<BearerPrefix, "jwt-u2">>
  /\ verdict.result.err = ErrInvalidToken

\* C9: when the connection handler has run for an authenticated socket, its
\* rooms are its personal room, its role room, and the admin room exactly
\* when its role is admin.
C9_DefaultRooms ==
  [][\A s \in Sockets :
       Connects(s) =>
         /\ rooms'[s] = {PersonalRoom(ident[s].userId), RoleRoom(ident[s].userType)}
                          \cup (IF ident[s].userType = "admin" THEN {AdminRoom} ELSE {})
         /\ ident[s].userType # "admin" => AdminRoom \notin rooms'[s]]_vars

C9_Witness ==
  \E s, t \in Sockets :
    /\ phase[s] = "open" /\ recoveries[s] = 0
    /\ ident[s].userType = "admin" /\ AdminRoom \in rooms[s]
    /\ phase[t] = "open" /\ recoveries[t] = 0
    /\ ident[t].userType = "student" /\ AdminRoom \notin rooms[t]

\* a client control message is handled
ControlMessage ==
  \E s \in Sockets :
    \/ \E jobId \in JobIdArgs : JoinJobRoom(s, jobId) \/ LeaveJobRoom(s, jobId)
    \/ KycStatusRequest(s)
    \/ Ping(s)

\* C10: no join_job_room, leave_job_room, ping or kyc:status:request, with
\* any argument, changes any socket's membership in a personal, role or admin
\* room; an authenticated socket is in those of its own identity and no
\* others.
C10_ReservedRoomsNotClientMutable ==
  /\ [][ControlMessage =>
          \A s \in Sockets :
            rooms'[s] \cap ReservedRooms = rooms[s] \cap ReservedRooms]_vars
  /\ [](\A s \in Sockets :
          phase[s] = "open" /\ ident[s].userId # Undef =>
            rooms[s] \cap ReservedRooms =
              {PersonalRoom(ident[s].userId), RoleRoom(ident[s].userType)})

C10_Witness ==
  \E s \in Sockets :
    /\ phase[s] = "open"
    /\ ident[s].userType = "student"
    /\ JobRoom(<<"admin">>) \in rooms[s]
    /\ JobRoom(<<"user:", "u1">>) \notin rooms[s]
    /\ Len(sent[s]) = MaxSent
    /\ AdminRoom \notin rooms[s]

\* --------------------------------------------------- dispatcher vocabulary
\* the message is an event of the dispatcher
IsEvent(m) == "to" \in DOMAIN m

\* the identity a socket authenticated with, as its first 'connected' says
OwnerId(s) == IF sent[s] = <<>> THEN Undef ELSE sent[s][1].userId
OwnerRole(s) == IF sent[s] = <<>> THEN Undef ELSE sent[s][1].userType

\* what the step sends to the socket
Received(s) == SubSeq(sent'[s], Len(sent[s]) + 1, Len(sent'[s]))

\* events in seq named name / addressed to target
CountNamed(seq, name) ==
  Cardinality({i \in 1..Len(seq) : IsEvent(seq[i]) /\ seq[i].event = name})
CountTo(seq, target) ==
  Cardinality({i \in 1..Len(seq) : IsEvent(seq[i]) /\ seq[i].to = target})

IsOpen(s) == phase[s] = "open"

\* C11: emitToUser, notifyJobRejected and notifyApplicationStatusUpdate for
\* user u send one event to every open socket of u, also when u has several,
\* and no socket of another user ever gets an event addressed to u.
C11_UserDispatchReachesOnlyUser ==
  /\ [][\A u \in DispatchUsers, d \in DispatchPayloads, e \in DispatchEvents :
          (emitToUser(u, e, d) \/ notifyJobRejected(d, u)
             \/ notifyApplicationStatusUpdate(d, u)) =>
            \A s \in Sockets :
              Len(Received(s)) = IF IsOpen(s) /\ OwnerId(s) = u THEN 1 ELSE 0]_vars
  /\ [](\A s \in Sockets, u \in UserIds :
          \A i \in 1..Len(sent[s]) :
            IsEvent(sent[s][i]) /\ PersonalRoom(u) \in sent[s][i].to
              => OwnerId(s) = u)

C11_Witness ==
  \E s, t \in Sockets :
    /\ s # t
    /\ OwnerId(s) = "u1" /\ OwnerId(t) = "u1"
    /\ CountNamed(sent[s], "job_rejected") = 1
    /\ CountNamed(sent[t], "job_rejected") = 1

\* C12: the event notifyNewApplication sends to a job room goes to exactly the
\* open sockets that are in that room by their own join, and whenever a
\* socket is sent a job-room event it is open and in that room.
C12_TopicDispatch ==
  /\ [][\A u \in DispatchUsers, d \in DispatchPayloads :
          notifyNewApplication(d, u) =>
            \A s \in Sockets :
              CountTo(Received(s), {JobRoom(<<d.jobId>>)}) =
                IF IsOpen(s) /\ JobRoom(<<d.jobId>>) \in rooms[s] THEN 1 ELSE 0]_vars
  /\ [][\A s \in Sockets, j \in DispatchJobIds :
          CountTo(Received(s), {JobRoom(j)}) > 0 =>
            phase'[s] = "open" /\ JobRoom(j) \in rooms'[s]]_vars

C12_Witness ==
  \E s, t \in Sockets :
    /\ IsOpen(s) /\ JobRoom(<<"42">>) \in rooms[s]
    /\ CountTo(sent[s], {JobRoom(<<"42">>)}) = 1
    /\ OwnerId(s) = "u2"
    /\ IsOpen(t) /\ JobRoom(<<"42">>) \notin rooms[t]
    /\ OwnerId(t) = "u2"
    /\ CountTo(sent[t], {JobRoom(<<"42">>)}) = 0
    /\ dispatched = 1

\* the job rooms a client of this model can name
JobRooms == {JobRoom(j) : j \in JobIdArgs}

\* C13: a join_job_room for a room the socket is in and a leave_job_room for
\* a room it is not in change no membership and are handled like any other;
\* after a leave_job_room the socket is out of the room however often it
\* joined.
C13_JoinLeaveIdempotent ==
  /\ [][\A s \in Sockets, j \in JobIdArgs :
          /\ JoinJobRoom(s, j) =>
               /\ JobRoom(j) \in rooms'[s]
               /\ JobRoom(j) \in rooms[s] => rooms' = rooms
          /\ LeaveJobRoom(s, j) =>
               /\ JobRoom(j) \notin rooms'[s]
               /\ JobRoom(j) \notin rooms[s] => rooms' = rooms]_vars
  /\ [](\A s \in Sockets, j \in JobIdArgs :
          IsOpen(s) => ENABLED JoinJobRoom(s, j) /\ ENABLED LeaveJobRoom(s, j))

C13_Witness ==
  \E s \in Sockets :
    /\ IsOpen(s)
    /\ JobRoom(<<"42">>) \in rooms[s]
    /\ JobRoom(<<"admin">>) \notin rooms[s]
    /\ ENABLED JoinJobRoom(s, <<"42">>)
    /\ ENABLED LeaveJobRoom(s, <<"admin">>)

\* the socket becomes open
Opens(s) == phase[s] # "open" /\ phase'[s] = "open"

\* C14 as claimed: every socket that becomes open after a disconnect starts
\* in no job room.
C14_NoTopicAfterDisconnect ==
  [][\A s \in Sockets :
       Opens(s) => \A j \in DispatchJobIds : JobRoom(j) \notin rooms'[s]]_vars

\* C14 as amended: a socket that connects through the middleware starts in no
\* job room and, as long as it was never recovered, is sent a job-room event
\* only while it is in that room by its own join; a recovered socket comes
\* back in the rooms its session kept.
C14_FreshConnectionHasNoTopic ==
  [][\A s \in Sockets :
       /\ Connects(s) => \A j \in DispatchJobIds : JobRoom(j) \notin rooms'[s]
       /\ \A j \in DispatchJobIds :
            recoveries'[s] = 0 /\ CountTo(Received(s), {JobRoom(j)}) > 0
              => JobRoom(j) \in rooms[s]
       /\ Recover(s) => rooms'[s] = session[s].rooms]_vars

C14_Witness ==
  \E s, t \in Sockets :
    /\ s # t
    /\ phase[s] = "closed" /\ session[s].saved
    /\ JobRoom(<<"42">>) \in session[s].rooms
    /\ OwnerId(s) = "u1"
    /\ IsOpen(t) /\ OwnerId(t) = "u1" /\ recoveries[t] = 0
    /\ JobRoom(<<"42">>) \notin rooms[t]
    /\ CountTo(session[s].missed, {JobRoom(<<"42">>)}) = 1
    /\ CountTo(sent[t], {JobRoom(<<"42">>)}) = 0

\* C15: a socket reaches the connection handler only straight from a
\* successful run of the authentication middleware for it.
C15_HandlerOnlyAfterAuthentication ==
  [][\A s \in Sockets :
       Opens(s) => phase[s] = "authed" /\ authError[s] = NoErr
                     /\ ident[s].userId \in DOMAIN Users]_vars

\* no open socket is in a room of target
NoMember(target) ==
  \A s \in Sockets : ~(IsOpen(s) /\ rooms[s] \cap target # {})

\* an emitToUser / emitToAdmins / emitKYCStatusUpdate whose targets hold no
\* open socket
DispatchToNobody(targets) ==
  /\ NoMember(targets)
  /\ \/ \E u \in DispatchUsers, e \in DispatchEvents, d \in DispatchPayloads :
          targets = {PersonalRoom(u)} /\ emitToUser(u, e, d)
     \/ \E e \in DispatchEvents, d \in DispatchPayloads :
          targets = {AdminRoom} /\ emitToAdmins(e, d)
     \/ \E u \in DispatchUsers, d \in DispatchPayloads :
          targets = {PersonalRoom(u), AdminRoom} /\ emitKYCStatusUpdate(u, d)
     \/ \E u \in DispatchUsers, d \in DispatchPayloads :
          targets = {PersonalRoom(u), JobRoom(<<d.jobId>>)}
            /\ notifyNewApplication(d, u)

DispatchTargetSets ==
  {{PersonalRoom(u)} : u \in DispatchUsers} \cup {{AdminRoom}}
    \cup {{PersonalRoom(u), AdminRoom} : u \in DispatchUsers}
    \cup {{PersonalRoom(u), JobRoom(j)} : u \in DispatchUsers, j \in DispatchJobIds}

\* C16 as claimed: a dispatch to a target without open sockets completes,
\* sends nothing, keeps nothing for later delivery and changes neither the
\* registry nor any room.
C16_NobodyMeansNoTrace ==
  [][\A targets \in DispatchTargetSets :
       DispatchToNobody(targets) =>
         /\ sent' = sent
         /\ session' = session
         /\ rooms' = rooms
         /\ connectedUsers' = connectedUsers]_vars

\* C16 as amended: such a dispatch completes, sends nothing at the time and
\* changes neither the registry nor any room; the event is kept only in
\* sessions held for recovery whose rooms are in the target, and is sent
\* only when such a session is recovered.
C16_NobodyMeansNothingSent ==
  [][\A targets \in DispatchTargetSets :
       DispatchToNobody(targets) =>
         /\ sent' = sent
         /\ rooms' = rooms
         /\ connectedUsers' = connectedUsers
         /\ phase' = phase
         /\ \A s \in Sockets :
              session'[s] # session[s] =>
                /\ phase[s] = "closed" /\ session[s].saved
                /\ session[s].rooms \cap targets # {}
                /\ session'[s].rooms = session[s].rooms]_vars

C16_Witness ==
  /\ dispatched = 1
  /\ \A s \in Sockets : CountNamed(sent[s], "notice") = 0
  /\ \E s, t \in Sockets :
       /\ phase[s] = "closed" /\ session[s].saved
       /\ CountNamed(session[s].missed, "notice") = 1
       /\ OwnerId(s) = "u1"
       /\ IsOpen(t) /\ OwnerId(t) = "u2" /\ Len(sent[t]) = 1

\* the objects built for a call, and the three that only add a timestamp
Emitted == {outbox.toUser, outbox.toAdmins, outbox.kycUser, outbox.kycAdmin}

\* C17 as claimed: every emitted object has every field of the payload with
\* the payload's value, and no field besides those and timestamp.
C17_PayloadUnchanged ==
  outbox.done =>
    \A m \in Emitted :
      /\ \A f \in DOMAIN call.data : f \in DOMAIN m /\ m[f] = call.data[f]
      /\ DOMAIN m = DOMAIN call.data \cup {"timestamp"}

\* C17 as amended: every emitted object has every payload field other than
\* timestamp with the payload's value; its timestamp is the dispatcher's,
\* also when the payload has one; kyc:admin:update has a userId field too,
\* which is the payload's userId when it has one and the subject otherwise.
C17_PayloadKeptExceptTimestamp ==
  outbox.done =>
    /\ \A m \in Emitted :
         /\ \A f \in DOMAIN call.data \ {"timestamp"} :
              f \in DOMAIN m /\ m[f] = call.data[f]
         /\ m.timestamp = Now
    /\ \A m \in {outbox.toUser, outbox.toAdmins, outbox.kycUser} :
         DOMAIN m = DOMAIN call.data \cup {"timestamp"}
    /\ DOMAIN outbox.kycAdmin = DOMAIN call.data \cup {"timestamp", "userId"}
    /\ "userId" \notin DOMAIN call.data => outbox.kycAdmin.userId = call.userId

C17_Witness ==
  /\ outbox.done
  /\ "timestamp" \in DOMAIN call.data
  /\ "userId" \in DOMAIN call.data
  /\ "status" \in DOMAIN call.data
  /\ outbox.toUser.timestamp = Now
  /\ outbox.kycAdmin.userId = call.data.userId

\* C18: emitKYCStatusUpdate for subject u sends one kyc:status:update to
\* every open socket of u, one kyc:admin:update to every open socket of an
\* admin, and nothing to the others.
C18_KycDispatch ==
  [][\A u \in DispatchUsers, d \in DispatchPayloads :
       emitKYCStatusUpdate(u, d) =>
         \A s \in Sockets :
           /\ CountNamed(Received(s), "kyc:status:update") =
                IF IsOpen(s) /\ OwnerId(s) = u THEN 1 ELSE 0
           /\ CountNamed(Received(s), "kyc:admin:update") =
                IF IsOpen(s) /\ OwnerRole(s) = "admin" THEN 1 ELSE 0
           /\ Len(Received(s)) =
                CountNamed(Received(s), "kyc:status:update")
                  + CountNamed(Received(s), "kyc:admin:update")]_vars

C18_Witness ==
  \E s, t \in Sockets :
    /\ IsOpen(s) /\ OwnerId(s) = "u1"
    /\ CountNamed(sent[s], "kyc:status:update") = 1
    /\ CountNamed(sent[s], "kyc:admin:update") = 0
    /\ IsOpen(t) /\ OwnerRole(t) = "admin"
    /\ CountNamed(sent[t], "kyc:status:update") = 0
    /\ CountNamed(sent[t], "kyc:admin:update") = 1

\* C19: notifyNewApplication for employer e and job j sends new_application
\* once for the personal room and once for the job room: two to an open
\* socket of e that is in job:j, one to a socket in only one of the two
\* rooms, none to a socket in neither.
C19_NewApplicationTwoDeliveries ==
  [][\A e \in DispatchUsers, d \in DispatchPayloads :
       notifyNewApplication(d, e) =>
         \A s \in Sockets :
           CountNamed(Received(s), "new_application") =
             (IF IsOpen(s) /\ OwnerId(s) = e THEN 1 ELSE 0)
               + (IF IsOpen(s) /\ JobRoom(<<d.jobId>>) \in rooms[s] THEN 1 ELSE 0)]_vars

C19_Witness ==
  \E s, t \in Sockets :
    /\ IsOpen(s) /\ OwnerId(s) = "u2" /\ JobRoom(<<"42">>) \in rooms[s]
    /\ CountNamed(sent[s], "new_application") = 2
    /\ IsOpen(t) /\ OwnerId(t) = "u1" /\ JobRoom(<<"42">>) \in rooms[t]
    /\ CountNamed(sent[t], "new_application") = 1

\* C20: notifyJobApproved sends exactly one job_approved, carrying the job
\* payload, to every open socket of a student and nothing to a socket of
\* another role.
C20_JobApprovedToStudents ==
  [][\A d \in DispatchPayloads :
       notifyJobApproved(d) =>
         \A s \in Sockets :
           IF IsOpen(s) /\ OwnerRole(s) = "student"
             THEN /\ Len(Received(s)) = 1
                  /\ Received(s)[1].event = "job_approved"
                  /\ Received(s)[1].data.job = d
             ELSE Received(s) = <<>>]_vars

C20_Witness ==
  \E s, t \in Sockets :
    /\ IsOpen(s) /\ OwnerRole(s) = "student"
    /\ CountNamed(sent[s], "job_approved") = 1
    /\ IsOpen(t) /\ OwnerRole(t) = "admin"
    /\ Len(sent[t]) = 1
    /\ dispatched = 1

\* C21: a join_job_room or leave_job_room that carries no job id is
\* discarded: it changes no room membership of any socket and the socket
\* stays open with its identity.
C21_MalformedDiscarded ==
  [][\A s \in Sockets :
       (JoinJobRoom(s, NoString) \/ LeaveJobRoom(s, NoString)) =>
         /\ rooms' = rooms
         /\ phase'[s] = "open"
         /\ ident'[s] = ident[s]]_vars

\* all three identity properties of the socket are set
FullyAuthenticated(id) ==
  id.userId # Undef /\ id.userType # Undef /\ id.userEmail # Undef

\* C22: whenever the connection handler runs for a socket, the socket
\* carries userId, role and email, so the handler registers it and puts it in
\* its personal and role rooms; no socket is ever open without an identity.
C22_ActiveMeansAuthenticated ==
  /\ [][\A s \in Sockets :
          Opens(s) =>
            /\ FullyAuthenticated(ident'[s])
            /\ ident'[s].userId \in DOMAIN connectedUsers'
            /\ connectedUsers'[ident'[s].userId] = s
            /\ PersonalRoom(ident'[s].userId) \in rooms'[s]
            /\ RoleRoom(ident'[s].userType) \in rooms'[s]]_vars
  /\ [](\A s \in Sockets : IsOpen(s) => FullyAuthenticated(ident[s]))

\* the socket is inside the connection handler
MidHandler(s) == phase[s] \in HandlerPhases

\* a dispatcher method or a disconnect handler runs
DispatchOrDisconnect ==
  dispatched' # dispatched \/ \E s \in Sockets : Disconnects(s)

\* C23: no dispatcher call and no disconnect handler runs while a socket is
\* between its registry entry and its room joins; every registry entry is of
\* a socket that is in its personal and role rooms; a dispatch to user u
\* reaches the socket registered for u; and when the handler ends the
\* registry still holds the socket it stored.
C23_SetupAtomic ==
  /\ [][DispatchOrDisconnect => \A s \in Sockets : ~MidHandler(s)]_vars
  /\ [][dispatched' # dispatched =>
          \A u \in DOMAIN connectedUsers :
            /\ PersonalRoom(u) \in rooms[connectedUsers[u]]
            /\ RoleRoom(Users[u].userType) \in rooms[connectedUsers[u]]]_vars
  /\ [][\A u \in DispatchUsers, e \in DispatchEvents, d \in DispatchPayloads :
          emitToUser(u, e, d) /\ isUserConnected(u) =>
            Len(Received(connectedUsers[u])) = 1]_vars
  /\ [][\A s \in Sockets :
          AckStep(s) =>
            /\ connectedUsers[ident[s].userId] = s
            /\ DefaultRooms(ident[s]) \subseteq rooms[s]]_vars

C23_Witness ==
  \E s, t \in Sockets :
    /\ IsOpen(s) /\ ident[s].userId = "u1" /\ connectedUsers["u1"] = s
    /\ CountNamed(sent[s], "notice") = 1
    /\ phase[t] = "authed" /\ ident[t].userId = "u1"
    /\ sent[t] = <<>>
    /\ dispatched = 1

\* m is the event named name that was addressed to target
Is(m, name, target) == IsEvent(m) /\ m.event = name /\ m.to = target

\* in seq every event (n1, t1) stands before every event (n2, t2)
Ordered(seq, n1, t1, n2, t2) ==
  \A i, j \in 1..Len(seq) :
    Is(seq[i], n1, t1) /\ Is(seq[j], n2, t2) => i < j

\* what the step adds to the events kept for the socket's session
Kept(s) ==
  IF session[s].saved /\ session'[s].saved
    THEN SubSeq(session'[s].missed, Len(session[s].missed) + 1,
                Len(session'[s].missed))
    ELSE <<>>

Acks(s) == {i \in 1..Len(sent[s]) : sent[s][i].event = "connected"}

\* C25: a socket that passed authentication and was connected has been sent
\* 'connected' exactly once, never more; the handler sends it when the
\* socket is registered and in its default rooms, and it carries the
\* socket's own userId, role and socket id.
C25_AckedExactlyOnce ==
  /\ [](\A s \in Sockets :
          /\ Cardinality(Acks(s)) <= 1
          /\ IsOpen(s) => Cardinality(Acks(s)) = 1
          /\ \A i \in Acks(s) :
               /\ sent[s][i].userId \in DOMAIN Users
               /\ sent[s][i].userType = Users[sent[s][i].userId].userType
               /\ sent[s][i].socketId = s)
  /\ [][\A s \in Sockets :
          Connects(s) =>
            /\ sent'[s] = Append(sent[s], ConnectedMsg(ident[s], s))
            /\ connectedUsers'[ident[s].userId] = s
            /\ DefaultRooms(ident[s]) \subseteq rooms'[s]]_vars

\* C26: a ping from an open socket is answered with exactly one pong, sent
\* to that socket and to no other, and handling it changes neither the
\* registry nor any room; an open socket's ping is always handled.
C26_PingPong ==
  /\ [][\A s \in Sockets :
          Ping(s) =>
            /\ Len(Received(s)) = 1
            /\ Received(s)[1].event = "pong"
            /\ \A t \in Sockets \ {s} : sent'[t] = sent[t]
            /\ connectedUsers' = connectedUsers
            /\ rooms' = rooms
            /\ phase' = phase /\ ident' = ident]_vars
  /\ [](\A s \in Sockets :
          IsOpen(s) /\ Len(sent[s]) < MaxSent => ENABLED Ping(s))

C26_Witness ==
  \E s, t \in Sockets :
    /\ IsOpen(s) /\ ident[s].userId = "u1"
    /\ sent[s] = <<ConnectedMsg(ident[s], s), Msg("pong", Undef, Undef, Undef)>>
    /\ IsOpen(t) /\ ident[t].userId = "u2"
    /\ sent[t] = <<ConnectedMsg(ident[t], t)>>
    /\ getConnectedUsersCount = 2

\* --------------------------------------------------------- REST vocabulary
\* the request received by the step, if it receives one
ReceivedRequest(i) == Len(requests') = i /\ Len(requests) = i - 1

\* request i ends with a success response in the step
Succeeds(i) ==
  /\ i \in DOMAIN requests
  /\ requests[i].pc # "done"
  /\ requests'[i].pc = "done"
  /\ requests'[i].res.success

JobRoutes == {"jobs/approve", "jobs/reject"}

\* C27: once the job's approvalStatus is not 'pending' it never is again; an
\* approve or reject that finds the job not pending is answered with the
\* validation error "Job is not pending approval" and writes nothing, and
\* only a request that found the job pending changes it; an approved job
\* has status 'active' and a rejected job status 'closed'.
C27_JobDecidedOnce ==
  /\ [][mongo.Job["j1"].approvalStatus # "pending"
          => mongo'.Job["j1"].approvalStatus # "pending"]_vars
  /\ [][\A i \in 1..MaxRequests :
          /\ ReceivedRequest(i) /\ requests'[i].route \in JobRoutes
               /\ requests'[i].id = "j1"
               /\ mongo.Job["j1"].approvalStatus # "pending" =>
                 /\ requests'[i].res =
                      ValidationError("Job is not pending approval")
                 /\ requests'[i].pc = "done"
          /\ ReceivedRequest(i) => mongo' = mongo]_vars
  /\ [][mongo'.Job # mongo.Job =>
          \E i \in DOMAIN requests :
            /\ Succeeds(i)
            /\ requests[i].loaded.doc.approvalStatus = "pending"]_vars
  /\ [](\A i \in DOMAIN requests :
          requests[i].pc = "done" /\ ~requests[i].res.success =>
            requests[i].res.message \in
              {"Invalid job ID", "Job not found", "Job is not pending approval"})
  /\ [](/\ mongo.Job["j1"].approvalStatus = "approved"
            => mongo.Job["j1"].status = "active"
        /\ mongo.Job["j1"].approvalStatus = "rejected"
            => mongo.Job["j1"].status = "closed")

C27_Witness ==
  /\ Len(requests) = 2
  /\ requests[1].route = "jobs/approve" /\ requests[1].res.sent
  /\ requests[1].res.success
  /\ requests[2].route = "jobs/reject" /\ requests[2].res.sent
  /\ requests[2].res.message = "Job is not pending approval"
  /\ mongo.Job["j1"] = [approvalStatus |-> "approved", status |-> "active"]

\* the user's kycStatus is the one that goes with the verificationStatus
Corresponds(verificationStatus, kycStatus) ==
  \/ verificationStatus = "approved" /\ kycStatus = "verified"
  \/ verificationStatus = "rejected" /\ kycStatus = "rejected"
  \/ verificationStatus = "pending" /\ kycStatus = "pending"

\* C28: when every KYC request received has been answered, the kycStatus of
\* the submission's user corresponds to the submission's verificationStatus.
C28_KycStatusesAgree ==
  (\A i \in DOMAIN requests : requests[i].pc = "done") =>
    Corresponds(mongo.KYC["k1"].verificationStatus,
                mongo.User[mongo.KYC["k1"].userId].kycStatus)

\* the address belongs to an account
HasAccount(email) == \E u \in DOMAIN Users : <<Users[u].email>> = email

\* C29: two answered forgot-password requests that differ only in whether
\* the address belongs to an account have the same response, whether or not
\* the OTP email could be sent.
C29_ForgotPasswordSameResponse ==
  \A i, j \in DOMAIN requests :
    /\ requests[i].route = "forgot-password" /\ requests[i].pc = "done"
    /\ requests[j].route = "forgot-password" /\ requests[j].pc = "done"
    /\ Truthy(requests[i].body) /\ Truthy(requests[j].body)
    /\ HasAccount(requests[i].body) /\ ~HasAccount(requests[j].body)
    => requests[i].res = requests[j].res

UserRoutes == {"users/delete", "users/suspend"}

SelfMessage(route) ==
  IF route = "users/delete" THEN "Cannot delete your own account"
  ELSE "Cannot suspend your own account"

\* C30: a delete or suspend whose target is the requesting admin is answered
\* with the validation error "Cannot delete/suspend your own account" and
\* writes nothing, so the admin's isActive stays as it was; the same request
\* on another existing user goes on to its save, which leaves that user's
\* isActive false and answers with success.
C30_NoSelfDeactivation ==
  /\ [][\A i \in 1..MaxRequests :
          ReceivedRequest(i) /\ requests'[i].route \in UserRoutes =>
            /\ mongo' = mongo
            /\ requests'[i].id = requests'[i].by =>
                 /\ requests'[i].pc = "done"
                 /\ requests'[i].res =
                      ValidationError(SelfMessage(requests'[i].route))
            /\ requests'[i].id \in DOMAIN Users \ {requests'[i].by} =>
                 requests'[i].pc = "loaded"]_vars
  /\ [][\A i \in DOMAIN requests :
          requests[i].route \in UserRoutes /\ requests[i].pc = "loaded"
            /\ requests'[i].pc = "done" =>
              /\ requests[i].id # requests[i].by
              /\ ~mongo'.User[requests[i].id].isActive
              /\ requests'[i].res.success
              /\ \A u \in DOMAIN Users \ {requests[i].id} :
                   mongo'.User[u] = mongo.User[u]]_vars
  /\ [](\A i \in DOMAIN requests :
          requests[i].route \in UserRoutes /\ requests[i].pc = "loaded" =>
            ENABLED (DeleteUserSave(i) \/ SuspendUserSave(i)))
  /\ [](\A a \in AdminIds : mongo.User[a].isActive = Users[a].isActive)

C30_Witness ==
  /\ Len(requests) = 2
  /\ requests[1].route = "users/delete" /\ requests[1].id = "u2"
  /\ requests[1].by = "u2"
  /\ requests[1].res = ValidationError("Cannot delete your own account")
  /\ requests[2].route = "users/suspend" /\ requests[2].id = "u1"
  /\ requests[2].by = "u2" /\ requests[2].pc = "done"
  /\ requests[2].res.success
  /\ ~mongo.User["u1"].isActive
  /\ mongo.User["u2"].isActive

====
